---- MODULE Spec2Model ----
(***************************************************************************)
(* Model of the Coderr marketplace backend (Django REST framework): the    *)
(* persisted rows of User, Offer, OfferDetail, Order and Review, and the   *)
(* request handlers that read and write them.  Every handler sets resp to  *)
(* the operation it served and the HTTP status it answered with.           *)
(***************************************************************************)
EXTENDS Integers, Sequences, FiniteSets, TLC

\* ---------------------------------------------------------------- bounds
MaxUsers == 3
MaxOffers == 1
MaxOrders == 1
MaxReviews == 2
MaxDetails == 4
MaxCreating == 1
MaxPosting == 2
MaxPackageOffers == 2
MaxRatedReviews == 4
MaxCountedOrders == 2

\* ------------------------------------------------------------- constants
Anon == 0
NoUser == Anon
NoField == "<absent>"
Bogus == "<bogus>"
UserTypes == {"customer", "business"}
OfferTypes == {"basic", "standard", "premium"}
Statuses == {"in_progress", "completed", "cancelled"}
Titles == {"t1", "t2"}
MinRating == 1
MaxRating == 5
NoRating == MinRating - 2
NoPrice == 0
NoDeliveryTime == 0
Null == 0

UserIds == 1..MaxUsers
Principals == {Anon} \cup UserIds
TypeLists == UNION {[1..n -> OfferTypes] : n \in 0..MaxDetails}

VARIABLES
    users,          \* accounts_app.User rows: id -> [type, is_staff]
    offers,         \* offers_app.Offer rows: [id, user, title]
    details,        \* offers_app.OfferDetail rows: [id, offer, offer_type, price, delivery_time_in_days]
    orders,         \* orders_app.Order rows
    reviews,        \* reviews_app.Review rows
    nextUserId, nextOfferId, nextDetailId, nextOrderId, nextReviewId,   \* AutoField counters
    creating,       \* offer creations between the Offer insert and the last package insert
    posting,        \* review creations between validate() and the insert
    resp            \* the response of the last handler step: [op, status, errors, data]

vars == <<users, offers, details, orders, reviews, nextUserId, nextOfferId, nextDetailId,
          nextOrderId, nextReviewId, creating, posting, resp>>

userVars == <<users, nextUserId>>
offerVars == <<offers, details, nextOfferId, nextDetailId, creating>>
orderVars == <<orders, nextOrderId>>
reviewVars == <<reviews, nextReviewId, posting>>

\* A response: the operation served, the HTTP status, for a validation
\* failure the keys of the error body, and for a read the serialized rows.
Response(op, status) == [op |-> op, status |-> status, errors |-> {}, data |-> {}]
ValidationError(op, keys) == [op |-> op, status |-> 400, errors |-> keys, data |-> {}]
Data(op, rows) == [op |-> op, status |-> 200, errors |-> {}, data |-> rows]

\* ---------------------------------------------------------------- lookups
is_authenticated(p) == p \in DOMAIN users
OfferById(o) == CHOOSE r \in offers : r.id = o
DetailById(d) == CHOOSE r \in details : r.id = d
OrderById(o) == CHOOSE r \in orders : r.id = o
ReviewById(r) == CHOOSE x \in reviews : x.id = r
OfferExists(o) == \E r \in offers : r.id = o
DetailExists(d) == \E r \in details : r.id = d
OrderExists(o) == \E r \in orders : r.id = o
ReviewExists(r) == \E x \in reviews : x.id = r
DetailsOf(o) == {d \in details : d.offer = o}
Range(s) == {s[i] : i \in DOMAIN s}

Init ==
    /\ users = <<>>
    /\ nextUserId = 1
    /\ offers = {}
    /\ details = {}
    /\ orders = {}
    /\ reviews = {}
    /\ nextOfferId = 1
    /\ nextDetailId = 1
    /\ nextOrderId = 1
    /\ nextReviewId = 1
    /\ creating = {}
    /\ posting = {}
    /\ resp = Response("none", 0)

\* --------------------------------------------------------------- accounts
\* POST /api/registration/ : type defaults to customer, never staff.
Registration(type) ==
    /\ users' = users @@ (nextUserId :> [type |-> type, is_staff |-> FALSE])
    /\ nextUserId' = nextUserId + 1
    /\ resp' = Response("registration", 201)
    /\ UNCHANGED <<offerVars, orderVars, reviewVars>>

\* A staff account (User.objects.create_user(..., is_staff=True)), made outside the API.
CreateStaff ==
    /\ users' = users @@ (nextUserId :> [type |-> "customer", is_staff |-> TRUE])
    /\ nextUserId' = nextUserId + 1
    /\ resp' = Response("create_staff", 0)
    /\ UNCHANGED <<offerVars, orderVars, reviewVars>>

\* Variant: the views list no IsAuthenticated.
IsAuthenticated_AllowAny(p) == TRUE

\* rest_framework.permissions.IsAuthenticated, as the views list it.
IsAuthenticated(p) == is_authenticated(p)

SAFE_METHODS == {"GET", "HEAD", "OPTIONS"}

\* Variant: every authenticated user passes.
IsProfileOwner_Anyone(p, target) == TRUE

\* IsProfileOwner.has_object_permission for an unsafe method.
IsProfileOwner(p, target) == target = p

\* A User row is deleted (the admin site's delete, Model.delete()): the
\* collector follows on_delete=CASCADE from User to Offer, Order and Review,
\* from Offer to OfferDetail and from OfferDetail to Order.  AutoField ids are
\* not given out again.
DeleteUser(u) ==
    /\ u \in DOMAIN users
    /\ users' = [v \in DOMAIN users \ {u} |-> users[v]]
    /\ offers' = {o \in offers : o.user # u}
    /\ details' = {d \in details : \E o \in offers' : o.id = d.offer}
    /\ orders' = {r \in orders : /\ r.customer_user # u
                                 /\ r.business_user # u
                                 /\ \E d \in details' : d.id = r.offer_detail}
    /\ reviews' = {r \in reviews : r.business_user # u /\ r.reviewer # u}
    /\ resp' = Response("delete_user", 0)
    /\ UNCHANGED <<nextUserId, nextOfferId, nextDetailId, nextOrderId, nextReviewId,
                   creating, posting>>

\* IsProfileOwner.has_object_permission: safe methods pass.
IsProfileOwner_has_object_permission(method, p, target) ==
    IF method \in SAFE_METHODS THEN TRUE ELSE IsProfileOwner(p, target)

\* UserProfileSerializer: the writable fields of a PATCH body that are present.
\* 'type' is among Meta.fields and not among read_only_fields.
UserProfileSerializer_writable(body) ==
    {f \in {"type"} : body[f] # NoField}

\* PATCH /api/profile/{pk}/ (ProfileViewSet, UpdateModelMixin.partial_update).
ProfilePartialUpdate(p, target, body) ==
    /\ UNCHANGED <<offerVars, orderVars, reviewVars, nextUserId>>
    /\ IF ~is_authenticated(p)
       THEN resp' = Response("profile_patch", 401) /\ UNCHANGED users
       ELSE IF target \notin DOMAIN users
       THEN resp' = Response("profile_patch", 404) /\ UNCHANGED users
       ELSE IF ~IsProfileOwner_has_object_permission("PATCH", p, target)
       THEN resp' = Response("profile_patch", 403) /\ UNCHANGED users
       ELSE IF "type" \in UserProfileSerializer_writable(body) /\ body.type \notin UserTypes
       THEN resp' = ValidationError("profile_patch", {"type"}) /\ UNCHANGED users
       ELSE /\ users' = [users EXCEPT ![target].type =
                            IF "type" \in UserProfileSerializer_writable(body)
                            THEN body.type ELSE @]
            /\ resp' = Response("profile_patch", 200)

ProfileBodies == [type : UserTypes \cup {NoField, Bogus}]

\* UserProfileSerializer(instance).data
UserProfileSerializer(u) == [user |-> u, type |-> users[u].type]

\* GET /api/profile/{pk}/ (ProfileViewSet, RetrieveModelMixin.retrieve).
ProfileRetrieve(p, target) ==
    /\ UNCHANGED <<userVars, offerVars, orderVars, reviewVars>>
    /\ IF ~IsAuthenticated(p)
       THEN resp' = Response("profile_get", 401)
       ELSE IF target \notin DOMAIN users
       THEN resp' = Response("profile_get", 404)
       ELSE IF ~IsProfileOwner_has_object_permission("GET", p, target)
       THEN resp' = Response("profile_get", 403)
       ELSE resp' = Data("profile_get", {UserProfileSerializer(target)})

\* GET /api/profiles/business/ and GET /api/profiles/customer/
ProfileList(p, type) ==
    /\ UNCHANGED <<userVars, offerVars, orderVars, reviewVars>>
    /\ IF ~IsAuthenticated(p)
       THEN resp' = Response("profile_list", 401)
       ELSE resp' = Data("profile_list",
                         {UserProfileSerializer(u) : u \in {v \in DOMAIN users : users[v].type = type}})

\* ----------------------------------------------------------------- offers
\* Variant: every authenticated user passes.
IsBusinessUser_Authenticated(p) == is_authenticated(p)

\* IsBusinessUser.has_permission for an unsafe method.
IsBusinessUser(p) == is_authenticated(p) /\ users[p].type = "business"

\* IsOfferOwner.has_object_permission for an unsafe method.
IsOfferOwner(p, offer) == offer.user = p

\* Variant: only the number of entries is checked.
validate_details_CountOnly(types) == Len(types) = 3

\* Variant: known types and no more than three entries.
validate_details_AtMostThree(types) ==
    Range(types) \subseteq OfferTypes /\ Len(types) <= 3

\* OfferCreateSerializer.validate_details: TRUE when the list is accepted.
validate_details(types) ==
    ~(Range(types) # OfferTypes \/ Len(types) # 3)

\* types = [d['offer_type'] for d in value]
offer_types(value) == [i \in DOMAIN value |-> value[i].offer_type]

\* POST /api/offers/ up to and including Offer.objects.create(**validated_data);
\* perform_create passes user=request.user, a 'user' key of the body is no
\* serializer field.  The package rows follow one insert at a time.
OfferCreate(p, body) ==
    /\ UNCHANGED <<userVars, orderVars, reviewVars, details, nextDetailId>>
    /\ IF ~is_authenticated(p)
       THEN resp' = Response("offer_create", 401) /\ UNCHANGED <<offers, nextOfferId, creating>>
       ELSE IF ~IsBusinessUser(p)
       THEN resp' = Response("offer_create", 403) /\ UNCHANGED <<offers, nextOfferId, creating>>
       ELSE IF ~validate_details(offer_types(body.details))
       THEN resp' = ValidationError("offer_create", {"details"})
            /\ UNCHANGED <<offers, nextOfferId, creating>>
       ELSE /\ offers' = offers \cup {[id |-> nextOfferId, user |-> p, title |-> body.title]}
            /\ nextOfferId' = nextOfferId + 1
            /\ IF body.details = <<>>
               THEN /\ resp' = Response("offer_create", 201)
                    /\ UNCHANGED creating
               ELSE /\ creating' = creating \cup {[offer |-> nextOfferId, rest |-> body.details]}
                    /\ resp' = Response("offer_create_offer", 0)


\* One pass of the loop "for detail_data in details_data:
\* OfferDetail.objects.create(offer=offer, **detail_data)".  Each create is its
\* own commit; the insert raises when the Offer row is gone (foreign key) or
\* the (offer, offer_type) pair is taken (unique_together).  After the last
\* pass create() returns and the view answers 201.
OfferCreateDetail(c) ==
    /\ c \in creating
    /\ UNCHANGED <<userVars, orderVars, reviewVars, offers, nextOfferId>>
    /\ IF \/ ~OfferExists(c.offer)
          \/ \E d \in DetailsOf(c.offer) : d.offer_type = Head(c.rest).offer_type
       THEN /\ creating' = creating \ {c}
            /\ resp' = Response("offer_create", 500)
            /\ UNCHANGED <<details, nextDetailId>>
       ELSE /\ details' = details \cup
                   {[id |-> nextDetailId, offer |-> c.offer,
                     offer_type |-> Head(c.rest).offer_type, price |-> Head(c.rest).price,
                     delivery_time_in_days |-> Head(c.rest).delivery_time_in_days]}
            /\ nextDetailId' = nextDetailId + 1
            /\ IF Tail(c.rest) = <<>>
               THEN /\ creating' = creating \ {c}
                    /\ resp' = Response("offer_create", 201)
               ELSE /\ creating' = (creating \ {c}) \cup {[c EXCEPT !.rest = Tail(@)]}
                    /\ resp' = Response("offer_create_detail", 0)

\* The storage layer fails an OfferDetail insert (lock timeout, lost connection):
\* the exception leaves create() and the view answers 500.  No transaction
\* encloses the inserts, so what was inserted before stays.
OfferCreateDetailFails(c) ==
    /\ c \in creating
    /\ creating' = creating \ {c}
    /\ resp' = Response("offer_create", 500)
    /\ UNCHANGED <<userVars, orderVars, reviewVars, offers, nextOfferId, details, nextDetailId>>

\* OfferUpdateSerializer.update, the Offer row: title from validated_data.
\* Neither 'user' nor 'offer' is a serializer field.
OfferUpdateSerializer_update(offer, body) ==
    [offer EXCEPT !.title = IF body.title # NoField THEN body.title ELSE @]

\* Variant: the entry replaces the package, a key it lacks is reset.
OfferUpdateSerializer_update_detail_Replace(rows, offer, detail_data) ==
    {IF d.offer = offer /\ d.offer_type = detail_data.offer_type
     THEN [d EXCEPT !.price = detail_data.price,
                    !.delivery_time_in_days = detail_data.delivery_time_in_days]
     ELSE d : d \in rows}

\* Variant: update_or_create, an entry that matches no package adds one.
OfferUpdateSerializer_update_detail_Upsert(rows, offer, detail_data) ==
    IF \E d \in rows : d.offer = offer /\ d.offer_type = detail_data.offer_type
    THEN {IF d.offer = offer /\ d.offer_type = detail_data.offer_type
          THEN [d EXCEPT
                   !.price = IF detail_data.price # NoPrice THEN detail_data.price ELSE @,
                   !.delivery_time_in_days =
                       IF detail_data.delivery_time_in_days # NoDeliveryTime
                       THEN detail_data.delivery_time_in_days ELSE @]
          ELSE d : d \in rows}
    ELSE rows \cup {[id |-> 0, offer |-> offer, offer_type |-> detail_data.offer_type,
                     price |-> detail_data.price,
                     delivery_time_in_days |-> detail_data.delivery_time_in_days]}

\* One pass of "for detail_data in details_data": the packages of the offer
\* with the entry's offer_type take the entry's other keys.
OfferUpdateSerializer_update_detail(rows, offer, detail_data) ==
    {IF d.offer = offer /\ d.offer_type = detail_data.offer_type
     THEN [d EXCEPT
              !.price = IF detail_data.price # NoPrice THEN detail_data.price ELSE @,
              !.delivery_time_in_days =
                  IF detail_data.delivery_time_in_days # NoDeliveryTime
                  THEN detail_data.delivery_time_in_days ELSE @]
     ELSE d : d \in rows}

\* The whole loop over details_data, in the order of the list.
RECURSIVE OfferUpdateSerializer_update_details(_, _, _)
OfferUpdateSerializer_update_details(rows, offer, details_data) ==
    IF details_data = <<>> THEN rows
    ELSE OfferUpdateSerializer_update_details(
             OfferUpdateSerializer_update_detail(rows, offer, Head(details_data)),
             offer, Tail(details_data))

\* PATCH /api/offers/{id}/
OfferPartialUpdate(p, o, body) ==
    /\ UNCHANGED <<userVars, orderVars, reviewVars, nextOfferId, nextDetailId, creating>>
    /\ IF ~is_authenticated(p)
       THEN resp' = Response("offer_patch", 401) /\ UNCHANGED <<offers, details>>
       ELSE IF ~IsBusinessUser(p)
       THEN resp' = Response("offer_patch", 403) /\ UNCHANGED <<offers, details>>
       ELSE IF ~OfferExists(o)
       THEN resp' = Response("offer_patch", 404) /\ UNCHANGED <<offers, details>>
       ELSE IF ~IsOfferOwner(p, OfferById(o))
       THEN resp' = Response("offer_patch", 403) /\ UNCHANGED <<offers, details>>
       ELSE /\ offers' = (offers \ {OfferById(o)}) \cup
                            {OfferUpdateSerializer_update(OfferById(o), body)}
            /\ details' = OfferUpdateSerializer_update_details(details, o, body.details)
            /\ resp' = Response("offer_patch", 200)


\* Variant: the orders of the offer's packages outlive them.
CascadeOffer_KeepOrders(o) ==
    /\ offers' = {r \in offers : r.id # o}
    /\ details' = {d \in details : d.offer # o}
    /\ orders' = orders

\* on_delete=CASCADE from Offer to OfferDetail to Order.
CascadeOffer(o) ==
    /\ offers' = {r \in offers : r.id # o}
    /\ details' = {d \in details : d.offer # o}
    /\ orders' = {r \in orders : r.offer_detail \notin {d.id : d \in DetailsOf(o)}}

\* DELETE /api/offers/{id}/
OfferDestroy(p, o) ==
    /\ UNCHANGED <<userVars, reviewVars, nextOfferId, nextDetailId, nextOrderId, creating>>
    /\ IF ~is_authenticated(p)
       THEN resp' = Response("offer_delete", 401) /\ UNCHANGED <<offers, details, orders>>
       ELSE IF ~IsBusinessUser(p)
       THEN resp' = Response("offer_delete", 403) /\ UNCHANGED <<offers, details, orders>>
       ELSE IF ~OfferExists(o)
       THEN resp' = Response("offer_delete", 404) /\ UNCHANGED <<offers, details, orders>>
       ELSE IF ~IsOfferOwner(p, OfferById(o))
       THEN resp' = Response("offer_delete", 403) /\ UNCHANGED <<offers, details, orders>>
       ELSE /\ CascadeOffer(o)
            /\ resp' = Response("offer_delete", 204)

\* OfferListSerializer, the serializer "for offer list and detail views":
\* details are the ids (and urls) of the offer's stored packages.
Min(S) == CHOOSE x \in S : \A y \in S : x <= y
Max(S) == CHOOSE x \in S : \A y \in S : x >= y

\* Variant: the highest price of the offer's packages.
get_min_price_Max(offer) ==
    LET prices == {d.price : d \in DetailsOf(offer.id)} IN
    IF prices # {} THEN Max(prices) ELSE Null

\* OfferListSerializer.get_min_price
get_min_price(offer) ==
    LET prices == {d.price : d \in DetailsOf(offer.id)} IN
    IF prices # {} THEN Min(prices) ELSE Null

\* OfferListSerializer.get_min_delivery_time
get_min_delivery_time(offer) ==
    LET times == {d.delivery_time_in_days : d \in DetailsOf(offer.id)} IN
    IF times # {} THEN Min(times) ELSE Null

OfferListSerializer(offer) ==
    [id |-> offer.id, user |-> offer.user, title |-> offer.title,
     details |-> {d.id : d \in DetailsOf(offer.id)},
     min_price |-> get_min_price(offer),
     min_delivery_time |-> get_min_delivery_time(offer)]

\* GET /api/offers/ : public.  The OrderingFilter passes a requested field of
\* ordering_fields to queryset.order_by(); 'min_price' is neither a field of
\* Offer nor an annotation of the queryset, so order_by raises FieldError,
\* which no handler catches.  The order of the rows by updated_at, the
\* filters and the pages are left out.
OfferViewSet_list(ordering) ==
    /\ UNCHANGED <<userVars, offerVars, orderVars, reviewVars>>
    /\ IF ordering \in {"min_price", "-min_price"}
       THEN resp' = Response("offer_list", 500)
       ELSE resp' = Data("offer_list", {OfferListSerializer(o) : o \in offers})

Orderings == {NoField, "updated_at", "-updated_at", "min_price", "-min_price"}

\* GET /api/offers/{id}/
OfferRetrieve(p, o) ==
    /\ UNCHANGED <<userVars, offerVars, orderVars, reviewVars>>
    /\ IF ~IsAuthenticated(p)
       THEN resp' = Response("offer_get", 401)
       ELSE IF ~OfferExists(o)
       THEN resp' = Response("offer_get", 404)
       ELSE resp' = Data("offer_get", {OfferListSerializer(OfferById(o))})

\* OfferDetailSerializer(instance).data
OfferDetailSerializer(d) ==
    [id |-> d.id, offer_type |-> d.offer_type, price |-> d.price,
     delivery_time_in_days |-> d.delivery_time_in_days]

\* GET /api/offerdetails/{id}/
OfferDetailRetrieve(p, d) ==
    /\ UNCHANGED <<userVars, offerVars, orderVars, reviewVars>>
    /\ IF ~IsAuthenticated(p)
       THEN resp' = Response("offerdetail_get", 401)
       ELSE IF ~DetailExists(d)
       THEN resp' = Response("offerdetail_get", 404)
       ELSE resp' = Data("offerdetail_get", {OfferDetailSerializer(DetailById(d))})

\* ----------------------------------------------------------------- orders
\* Variant: every authenticated user passes.
IsCustomerUser_Authenticated(p) == is_authenticated(p)

\* orders_app IsCustomerUser.has_permission
IsCustomerUser(p) == is_authenticated(p) /\ users[p].type = "customer"

\* Variant: any business user passes, whoever the order is assigned to.
IsBusinessUserOfOrder_AnyBusiness(p, order) == users[p].type = "business"

\* IsBusinessUserOfOrder.has_object_permission
IsBusinessUserOfOrder(p, order) ==
    IF users[p].type # "business" THEN FALSE ELSE order.business_user = p

\* Variant: any authenticated user passes.
IsAdminUser_Authenticated(p) == is_authenticated(p)

\* orders_app IsAdminUser.has_permission
IsAdminUser(p) == is_authenticated(p) /\ users[p].is_staff

\* OrderCreateSerializer.validate_offer_detail_id: TRUE when the id is accepted.
validate_offer_detail_id(value) == DetailExists(value)

\* Variant: a business_user key of the body is taken over.
OrderCreateSerializer_create_FromBody(p, body, id) ==
    LET offer_detail == DetailById(body.offer_detail_id) IN
    [id |-> id,
     customer_user |-> p,
     business_user |-> IF body.business_user # NoUser THEN body.business_user
                       ELSE OfferById(offer_detail.offer).user,
     offer_detail |-> offer_detail.id,
     status |-> "in_progress"]

\* OrderCreateSerializer.create: Meta.fields is ['offer_detail_id'], every other
\* key of the body is dropped before create() runs.
OrderCreateSerializer_create(p, body, id) ==
    LET offer_detail == DetailById(body.offer_detail_id) IN
    [id |-> id,
     customer_user |-> p,
     business_user |-> OfferById(offer_detail.offer).user,
     offer_detail |-> offer_detail.id,
     status |-> "in_progress"]

\* POST /api/orders/
OrderCreate(p, body) ==
    /\ UNCHANGED <<userVars, offerVars, reviewVars>>
    /\ IF ~is_authenticated(p)
       THEN resp' = Response("order_create", 401) /\ UNCHANGED orderVars
       ELSE IF ~IsCustomerUser(p)
       THEN resp' = Response("order_create", 403) /\ UNCHANGED orderVars
       ELSE IF ~validate_offer_detail_id(body.offer_detail_id)
       THEN resp' = ValidationError("order_create", {"offer_detail_id"}) /\ UNCHANGED orderVars
       ELSE /\ orders' = orders \cup {OrderCreateSerializer_create(p, body, nextOrderId)}
            /\ nextOrderId' = nextOrderId + 1
            /\ resp' = Response("order_create", 201)

DetailIdInputs == 0..(3 * MaxOffers)
OrderIdInputs == 1..MaxOrders
OfferIdInputs == 1..MaxOffers

\* OrderStatusUpdateSerializer: Meta.fields is ['status'].
OrderStatusUpdateSerializer_update(order, body) ==
    [order EXCEPT !.status = IF body.status # NoField THEN body.status ELSE @]

\* Variant: every action gets the orders the user is a party of.
OrderViewSet_get_queryset_Own(action, p) ==
    {r \in orders : r.customer_user = p \/ r.business_user = p}

\* OrderViewSet.get_queryset: every order for update and delete, the user's
\* own orders otherwise.
OrderViewSet_get_queryset(action, p) ==
    IF action \in {"partial_update", "update", "destroy"}
    THEN orders
    ELSE {r \in orders : r.customer_user = p \/ r.business_user = p}

\* PATCH /api/orders/{id}/ : get_object() looks the id up in get_queryset().
OrderPartialUpdate(p, o, body) ==
    /\ UNCHANGED <<userVars, offerVars, reviewVars, nextOrderId>>
    /\ IF ~is_authenticated(p)
       THEN resp' = Response("order_patch", 401) /\ UNCHANGED orders
       ELSE IF ~\E r \in OrderViewSet_get_queryset("partial_update", p) : r.id = o
       THEN resp' = Response("order_patch", 404) /\ UNCHANGED orders
       ELSE IF ~IsBusinessUserOfOrder(p, OrderById(o))
       THEN resp' = Response("order_patch", 403) /\ UNCHANGED orders
       ELSE IF body.status \notin Statuses \cup {NoField}
       THEN resp' = ValidationError("order_patch", {"status"}) /\ UNCHANGED orders
       ELSE /\ orders' = (orders \ {OrderById(o)}) \cup
                            {OrderStatusUpdateSerializer_update(OrderById(o), body)}
            /\ resp' = Response("order_patch", 200)


\* DELETE /api/orders/{id}/ : IsAdminUser alone guards the action.
OrderDestroy(p, o) ==
    /\ UNCHANGED <<userVars, offerVars, reviewVars, nextOrderId>>
    /\ IF ~is_authenticated(p)
       THEN resp' = Response("order_delete", 401) /\ UNCHANGED orders
       ELSE IF ~IsAdminUser(p)
       THEN resp' = Response("order_delete", 403) /\ UNCHANGED orders
       ELSE IF ~\E r \in OrderViewSet_get_queryset("destroy", p) : r.id = o
       THEN resp' = Response("order_delete", 404) /\ UNCHANGED orders
       ELSE /\ orders' = orders \ {OrderById(o)}
            /\ resp' = Response("order_delete", 204)

\* Variant: the list action gets every order, as update and destroy do.
OrderList_All(p, rows) == rows

\* OrderViewSet.get_queryset for the list action.
OrderList(p, rows) == {r \in rows : r.customer_user = p \/ r.business_user = p}

\* Variant: the price shown is the one packages are created with.
OrderSerializer_CreationPrice(r) ==
    [id |-> r.id, customer_user |-> r.customer_user, business_user |-> r.business_user,
     status |-> r.status,
     offer_type |-> DetailById(r.offer_detail).offer_type,
     price |-> 1]

\* OrderSerializer(order).data: the package fields have source='offer_detail.<field>'.
OrderSerializer(r) ==
    [id |-> r.id, customer_user |-> r.customer_user, business_user |-> r.business_user,
     status |-> r.status,
     offer_type |-> DetailById(r.offer_detail).offer_type,
     price |-> DetailById(r.offer_detail).price]

\* GET /api/orders/
OrderViewSet_list(p) ==
    /\ UNCHANGED <<userVars, offerVars, orderVars, reviewVars>>
    /\ IF ~IsAuthenticated(p)
       THEN resp' = Response("order_list", 401)
       ELSE resp' = Data("order_list", {OrderSerializer(r) : r \in OrderList(p, orders)})

\* GET /api/orders/{id}/ : get_object() looks the id up in get_queryset().
OrderRetrieve(p, o) ==
    /\ UNCHANGED <<userVars, offerVars, orderVars, reviewVars>>
    /\ IF ~IsAuthenticated(p)
       THEN resp' = Response("order_get", 401)
       ELSE IF ~\E r \in OrderList(p, orders) : r.id = o
       THEN resp' = Response("order_get", 404)
       ELSE resp' = Data("order_get", {OrderSerializer(OrderById(o))})

\* Variant: the orders of the user are counted whatever their status.
OrderCount_AnyStatus(op, p, business_user_id, status) ==
    /\ UNCHANGED <<userVars, offerVars, orderVars, reviewVars>>
    /\ IF ~IsAuthenticated(p)
       THEN resp' = Response(op, 401)
       ELSE IF ~(business_user_id \in DOMAIN users /\ users[business_user_id].type = "business")
       THEN resp' = Response(op, 404)
       ELSE resp' = Data(op, {[count |-> Cardinality({r \in orders :
                                      r.business_user = business_user_id})]})

\* The body of both count views: get_object_or_404(User, id=..., type='business'),
\* then the number of that user's orders in the given status.
OrderCount(op, p, business_user_id, status) ==
    /\ UNCHANGED <<userVars, offerVars, orderVars, reviewVars>>
    /\ IF ~IsAuthenticated(p)
       THEN resp' = Response(op, 401)
       ELSE IF ~(business_user_id \in DOMAIN users /\ users[business_user_id].type = "business")
       THEN resp' = Response(op, 404)
       ELSE resp' = Data(op, {[count |-> Cardinality({r \in orders :
                                      /\ r.business_user = business_user_id
                                      /\ r.status = status})]})

\* GET /api/order-count/{business_user_id}/
OrderCountView(p, business_user_id) ==
    OrderCount("order_count", p, business_user_id, "in_progress")

\* GET /api/completed-order-count/{business_user_id}/
CompletedOrderCountView(p, business_user_id) ==
    OrderCount("completed_order_count", p, business_user_id, "completed")

\* ---------------------------------------------------------------- reviews
\* Variant: the reviewed business user passes as well.
IsReviewOwner_OrReviewed(p, review) == review.reviewer = p \/ review.business_user = p

\* reviews_app IsReviewOwner.has_object_permission
IsReviewOwner(p, review) == review.reviewer = p

\* The field errors of ReviewSerializer on a POST: business_user is a primary
\* key of an existing user, rating lies within the model's validators, and
\* all three writable fields are required.  'reviewer' is read-only.
ReviewFieldErrorsOnCreate(body) ==
    {f \in {"business_user", "rating", "description"} :
        \/ f = "business_user" /\ body.business_user \notin DOMAIN users
        \/ f = "rating" /\ body.rating \notin MinRating..MaxRating
        \/ f = "description" /\ body.description = NoField}

\* The same on a PATCH (partial=True): only the fields present are validated.
ReviewFieldErrorsOnUpdate(body) ==
    {f \in {"business_user", "rating"} :
        \/ f = "business_user" /\ body.business_user # NoUser
                               /\ body.business_user \notin DOMAIN users
        \/ f = "rating" /\ body.rating # NoRating
                        /\ body.rating \notin MinRating..MaxRating}

\* Variant: validate() lets every POST through.
ReviewSerializer_validate_Never(p, body) == TRUE

\* ReviewSerializer.validate on a POST: TRUE when the attrs are accepted.
ReviewSerializer_validate(p, body) ==
    ~\E r \in reviews : r.reviewer = p /\ r.business_user = body.business_user

\* Variant: the model declares no unique_together.
UniqueTogetherHolds_None(rows, row) == TRUE

\* Review.Meta.unique_together, as the database enforces it on a write of row.
UniqueTogetherHolds(rows, row) ==
    ~\E r \in rows : /\ r.id # row.id
                     /\ r.business_user = row.business_user
                     /\ r.reviewer = row.reviewer

\* The foreign keys of a Review row, as the database enforces them on a write.
ForeignKeysHold(row) ==
    row.business_user \in DOMAIN users /\ row.reviewer \in DOMAIN users

FreeSlot == CHOOSE n \in 1..(MaxPosting + 1) : ~\E c \in posting : c.slot = n

\* POST /api/reviews/ up to the end of serializer.is_valid(raise_exception=True).
ReviewCreate(p, body) ==
    /\ UNCHANGED <<userVars, offerVars, orderVars, reviews, nextReviewId>>
    /\ IF ~is_authenticated(p)
       THEN resp' = Response("review_create", 401) /\ UNCHANGED posting
       ELSE IF ~IsCustomerUser(p)
       THEN resp' = Response("review_create", 403) /\ UNCHANGED posting
       ELSE IF ReviewFieldErrorsOnCreate(body) # {}
       THEN resp' = ValidationError("review_create", ReviewFieldErrorsOnCreate(body))
            /\ UNCHANGED posting
       ELSE IF ~ReviewSerializer_validate(p, body)
       THEN resp' = ValidationError("review_create", {"non_field_errors"})
            /\ UNCHANGED posting
       ELSE /\ posting' = posting \cup
                   {[slot |-> FreeSlot, reviewer |-> p, business_user |-> body.business_user,
                     rating |-> body.rating, description |-> body.description]}
            /\ resp' = Response("review_create_valid", 0)

\* serializer.save(reviewer=request.user): the INSERT, which the unique
\* constraint refuses with an IntegrityError that nothing catches.
ReviewCreateSave(c) ==
    /\ c \in posting
    /\ posting' = posting \ {c}
    /\ UNCHANGED <<userVars, offerVars, orderVars>>
    /\ LET row == [id |-> nextReviewId, business_user |-> c.business_user,
                   reviewer |-> c.reviewer, rating |-> c.rating,
                   description |-> c.description] IN
       IF \/ ~UniqueTogetherHolds(reviews, row)
          \/ ~ForeignKeysHold(row)
       THEN resp' = Response("review_create", 500) /\ UNCHANGED <<reviews, nextReviewId>>
       ELSE /\ reviews' = reviews \cup {row}
            /\ nextReviewId' = nextReviewId + 1
            /\ resp' = Response("review_create", 201)

\* ModelSerializer.update with the validated fields of a PATCH body.
ReviewSerializer_update(review, body) ==
    [review EXCEPT
        !.business_user = IF body.business_user # NoUser THEN body.business_user ELSE @,
        !.rating = IF body.rating # NoRating THEN body.rating ELSE @,
        !.description = IF body.description # NoField THEN body.description ELSE @]

\* PATCH /api/reviews/{id}/ : validate() checks nothing unless the method is POST.
ReviewPartialUpdate(p, r, body) ==
    /\ UNCHANGED <<userVars, offerVars, orderVars, nextReviewId, posting>>
    /\ IF ~is_authenticated(p)
       THEN resp' = Response("review_patch", 401) /\ UNCHANGED reviews
       ELSE IF ~ReviewExists(r)
       THEN resp' = Response("review_patch", 404) /\ UNCHANGED reviews
       ELSE IF ~IsReviewOwner(p, ReviewById(r))
       THEN resp' = Response("review_patch", 403) /\ UNCHANGED reviews
       ELSE IF ReviewFieldErrorsOnUpdate(body) # {}
       THEN resp' = ValidationError("review_patch", ReviewFieldErrorsOnUpdate(body))
            /\ UNCHANGED reviews
       ELSE IF ~UniqueTogetherHolds(reviews, ReviewSerializer_update(ReviewById(r), body))
       THEN resp' = Response("review_patch", 500) /\ UNCHANGED reviews
       ELSE /\ reviews' = (reviews \ {ReviewById(r)}) \cup
                              {ReviewSerializer_update(ReviewById(r), body)}
            /\ resp' = Response("review_patch", 200)

\* DELETE /api/reviews/{id}/
ReviewDestroy(p, r) ==
    /\ UNCHANGED <<userVars, offerVars, orderVars, nextReviewId, posting>>
    /\ IF ~is_authenticated(p)
       THEN resp' = Response("review_delete", 401) /\ UNCHANGED reviews
       ELSE IF ~ReviewExists(r)
       THEN resp' = Response("review_delete", 404) /\ UNCHANGED reviews
       ELSE IF ~IsReviewOwner(p, ReviewById(r))
       THEN resp' = Response("review_delete", 403) /\ UNCHANGED reviews
       ELSE /\ reviews' = reviews \ {ReviewById(r)}
            /\ resp' = Response("review_delete", 204)

\* GET /api/reviews/ (the query parameters left out: every review)
ReviewViewSet_list(p) ==
    /\ UNCHANGED <<userVars, offerVars, orderVars, reviewVars>>
    /\ IF ~IsAuthenticated(p)
       THEN resp' = Response("review_list", 401)
       ELSE resp' = Data("review_list", reviews)

\* GET /api/reviews/{id}/
ReviewRetrieve(p, r) ==
    /\ UNCHANGED <<userVars, offerVars, orderVars, reviewVars>>
    /\ IF ~IsAuthenticated(p)
       THEN resp' = Response("review_get", 401)
       ELSE IF ~ReviewExists(r)
       THEN resp' = Response("review_get", 404)
       ELSE resp' = Data("review_get", {ReviewById(r)})

\* PUT /api/profile/{pk}/ : 'put' is not among http_method_names, which
\* dispatch looks at after initial() has run the permission checks.
ProfileUpdate(p, target) ==
    /\ UNCHANGED <<userVars, offerVars, orderVars, reviewVars>>
    /\ IF ~is_authenticated(p)
       THEN resp' = Response("profile_put", 401)
       ELSE resp' = Response("profile_put", 405)

\* PUT /api/orders/{id}/ : likewise refused by http_method_names.
OrderUpdate(p, o) ==
    /\ UNCHANGED <<userVars, offerVars, orderVars, reviewVars>>
    /\ IF ~is_authenticated(p)
       THEN resp' = Response("order_put", 401)
       ELSE resp' = Response("order_put", 405)

\* PUT /api/offers/{id}/ : OfferViewSet is a ModelViewSet that sets no
\* http_method_names, so the router binds PUT to UpdateModelMixin.update,
\* which runs the serializer with partial=False ('title' is required).
OfferUpdate(p, o, body) ==
    /\ UNCHANGED <<userVars, orderVars, reviewVars, nextOfferId, nextDetailId, creating>>
    /\ IF ~is_authenticated(p)
       THEN resp' = Response("offer_put", 401) /\ UNCHANGED <<offers, details>>
       ELSE IF ~IsBusinessUser(p)
       THEN resp' = Response("offer_put", 403) /\ UNCHANGED <<offers, details>>
       ELSE IF ~OfferExists(o)
       THEN resp' = Response("offer_put", 404) /\ UNCHANGED <<offers, details>>
       ELSE IF ~IsOfferOwner(p, OfferById(o))
       THEN resp' = Response("offer_put", 403) /\ UNCHANGED <<offers, details>>
       ELSE IF body.title = NoField
       THEN resp' = ValidationError("offer_put", {"title"}) /\ UNCHANGED <<offers, details>>
       ELSE /\ offers' = (offers \ {OfferById(o)}) \cup
                            {OfferUpdateSerializer_update(OfferById(o), body)}
            /\ details' = OfferUpdateSerializer_update_details(details, o, body.details)
            /\ resp' = Response("offer_put", 200)

\* PUT /api/reviews/{id}/ : ReviewViewSet sets no http_method_names either.
\* Every writable field is required, validate() checks nothing unless the
\* method is POST, and the unique constraint is left to the database.
ReviewUpdate(p, r, body) ==
    /\ UNCHANGED <<userVars, offerVars, orderVars, nextReviewId, posting>>
    /\ IF ~is_authenticated(p)
       THEN resp' = Response("review_put", 401) /\ UNCHANGED reviews
       ELSE IF ~ReviewExists(r)
       THEN resp' = Response("review_put", 404) /\ UNCHANGED reviews
       ELSE IF ~IsReviewOwner(p, ReviewById(r))
       THEN resp' = Response("review_put", 403) /\ UNCHANGED reviews
       ELSE IF ReviewFieldErrorsOnCreate(body) # {}
       THEN resp' = ValidationError("review_put", ReviewFieldErrorsOnCreate(body))
            /\ UNCHANGED reviews
       ELSE IF ~UniqueTogetherHolds(reviews, ReviewSerializer_update(ReviewById(r), body))
       THEN resp' = Response("review_put", 500) /\ UNCHANGED reviews
       ELSE /\ reviews' = (reviews \ {ReviewById(r)}) \cup
                              {ReviewSerializer_update(ReviewById(r), body)}
            /\ resp' = Response("review_put", 200)

\* Review.objects.aggregate(Avg('rating')): the sum of the ratings, which the
\* database divides by the number of rows.
RECURSIVE RatingSum(_)
RatingSum(rows) ==
    IF rows = {} THEN 0
    ELSE LET r == CHOOSE x \in rows : TRUE IN r.rating + RatingSum(rows \ {r})

\* Variant: the digits after the first decimal are cut off.
round_Down(total, count) == (10 * total) \div count

\* round(total / count, 1), in tenths.  Python rounds the float to the nearest
\* tenth and a tie to the even one; the ties of a mean of up to five integers
\* are x.25 and x.75, which a float holds exactly.
round(total, count) ==
    LET q == (10 * total) \div count
        r == (10 * total) % count IN
    IF 2 * r < count THEN q
    ELSE IF 2 * r > count THEN q + 1
    ELSE IF q % 2 = 0 THEN q ELSE q + 1

\* GET /api/base-info/ : permission_classes = [], so no credential is looked
\* at.  average_rating is carried in tenths.
BaseInfoView ==
    /\ UNCHANGED <<userVars, offerVars, orderVars, reviewVars>>
    /\ resp' = Data("base_info",
          {[review_count |-> Cardinality(reviews),
            average_rating |-> IF reviews = {} THEN Null
                               ELSE round(RatingSum(reviews), Cardinality(reviews)),
            business_profile_count |->
                Cardinality({u \in DOMAIN users : users[u].type = "business"}),
            offer_count |-> Cardinality(offers)]})

\* ------------------------------------------------------------ specification
\* What bounds the registrations, the AutoField counters and the requests in flight.
CanRegister == nextUserId <= MaxUsers
CanCreateOffer == nextOfferId <= MaxOffers /\ Cardinality(creating) < MaxCreating
CanCreateOrder == nextOrderId <= MaxOrders
CanCreateReview ==
    /\ nextReviewId + Cardinality(posting) <= MaxReviews
    /\ Cardinality(posting) < MaxPosting

\* Request bodies: a key that is no serializer field takes one present value.
IgnoredUser == {NoUser, 1}
DetailEntry(t, price, days) ==
    [offer_type |-> t, price |-> price, delivery_time_in_days |-> days]
DetailData(t, price) == DetailEntry(t, price, 1)
DetailLists == {[i \in DOMAIN ts |-> DetailData(ts[i], 1)] : ts \in TypeLists}
ValidDetails == <<DetailData("basic", 1), DetailData("standard", 1), DetailData("premium", 1)>>
OfferCreateBodies == [title : {"t1"}, details : DetailLists, user : {NoUser}]
OfferCreateBodiesFew ==
    [title : {"t1"}, details : {ValidDetails, SubSeq(ValidDetails, 1, 2)}, user : IgnoredUser]
OfferPatchBodies ==
    [title : Titles \cup {NoField}, details : {<<>>, <<DetailData("basic", 2)>>},
     user : IgnoredUser]
OfferPatchBodiesFew == {b \in OfferPatchBodies : b.details = <<>>}
OrderCreateBodies == [offer_detail_id : DetailIdInputs, business_user : IgnoredUser]
OrderPatchBodies == [status : Statuses \cup {NoField, Bogus}, business_user : IgnoredUser]
ReviewIdInputs == 1..MaxReviews
ReviewCreateBodies ==
    [business_user : {NoUser} \cup UserIds, rating : {MinRating - 1, MinRating},
     description : {"d1"}, reviewer : IgnoredUser]
ReviewPatchBodies ==
    [business_user : {NoUser} \cup UserIds, rating : {NoRating, MaxRating},
     description : {NoField, "d2"}, reviewer : {NoUser}]

\* Users, offers and orders; no staff account.
Next ==
    \/ CanRegister /\ \E t \in UserTypes : Registration(t)
    \/ \E p \in Principals, t \in UserIds, b \in ProfileBodies : ProfilePartialUpdate(p, t, b)
    \/ CanCreateOffer /\ \E p \in Principals, b \in OfferCreateBodiesFew : OfferCreate(p, b)
    \/ \E c \in creating : OfferCreateDetail(c)
    \/ \E p \in Principals, o \in OfferIdInputs, b \in OfferPatchBodiesFew : OfferPartialUpdate(p, o, b)
    \/ \E p \in Principals, o \in OfferIdInputs : OfferDestroy(p, o)
    \/ CanCreateOrder /\ \E p \in Principals, b \in OrderCreateBodies : OrderCreate(p, b)
    \/ \E p \in Principals, o \in OrderIdInputs, b \in OrderPatchBodies : OrderPartialUpdate(p, o, b)
    \/ \E p \in Principals, o \in OrderIdInputs : OrderDestroy(p, o)

Spec == Init /\ [][Next]_vars

\* Users, among them staff accounts, offers and orders; roles stay as registered.
NextStaff ==
    \/ CanRegister /\ \E t \in UserTypes : Registration(t)
    \/ CanRegister /\ CreateStaff
    \/ CanCreateOffer /\ \E p \in Principals, b \in OfferCreateBodiesFew : OfferCreate(p, b)
    \/ \E c \in creating : OfferCreateDetail(c)
    \/ CanCreateOrder /\ \E p \in Principals, b \in OrderCreateBodies : OrderCreate(p, b)
    \/ \E p \in Principals, o \in OrderIdInputs, b \in OrderPatchBodies : OrderPartialUpdate(p, o, b)
    \/ \E p \in Principals, o \in OrderIdInputs : OrderDestroy(p, o)

SpecStaff == Init /\ [][NextStaff]_vars

\* Users and reviews, with review creations interleaving between validation and insert.
NextReviews ==
    \/ CanRegister /\ \E t \in UserTypes : Registration(t)
    \/ CanCreateReview /\ \E p \in UserIds, b \in ReviewCreateBodies : ReviewCreate(p, b)
    \/ \E c \in posting : ReviewCreateSave(c)
    \/ \E p \in UserIds, r \in ReviewIdInputs, b \in ReviewPatchBodies : ReviewPartialUpdate(p, r, b)
    \/ \E p \in UserIds, r \in ReviewIdInputs : ReviewDestroy(p, r)

SpecReviews == Init /\ [][NextReviews]_vars

\* Users and offers, with every list of package types up to MaxDetails entries.
NextOffers ==
    \/ CanRegister /\ \E t \in UserTypes : Registration(t)
    \/ \E p \in Principals, t \in UserIds, b \in ProfileBodies : ProfilePartialUpdate(p, t, b)
    \/ CanCreateOffer /\ \E p \in Principals, b \in OfferCreateBodies : OfferCreate(p, b)
    \/ \E c \in creating : OfferCreateDetail(c)
    \/ \E c \in creating : OfferCreateDetailFails(c)
    \/ \E p \in Principals, o \in OfferIdInputs, b \in OfferPatchBodiesFew : OfferPartialUpdate(p, o, b)
    \/ \E p \in Principals, o \in OfferIdInputs : OfferDestroy(p, o)

SpecOffers == Init /\ [][NextOffers]_vars

\* Users and their profiles: registration, profile PATCH and the profile reads.
NextProfiles ==
    \/ CanRegister /\ \E t \in UserTypes : Registration(t)
    \/ \E p \in Principals, t \in UserIds, b \in ProfileBodies : ProfilePartialUpdate(p, t, b)
    \/ \E p \in Principals, t \in UserIds : ProfileRetrieve(p, t)
    \/ \E p \in Principals, t \in UserTypes : ProfileList(p, t)

SpecProfiles == Init /\ [][NextProfiles]_vars

\* Offers, packages and orders with the reads that show them, taken between
\* any two writes.
NextReads ==
    \/ CanRegister /\ \E t \in UserTypes : Registration(t)
    \/ CanCreateOffer /\ \E p \in UserIds, b \in OfferCreateBodiesFew : OfferCreate(p, b)
    \/ \E c \in creating : OfferCreateDetail(c)
    \/ \E p \in UserIds, o \in OfferIdInputs, b \in OfferPatchBodies : OfferPartialUpdate(p, o, b)
    \/ CanCreateOrder /\ \E p \in UserIds, b \in OrderCreateBodies : OrderCreate(p, b)
    \/ \E p \in Principals, o \in OfferIdInputs : OfferRetrieve(p, o)
    \/ \E p \in Principals, d \in DetailIdInputs : OfferDetailRetrieve(p, d)
    \/ \E p \in Principals : OrderViewSet_list(p)
    \/ \E p \in Principals, o \in OrderIdInputs : OrderRetrieve(p, o)

SpecReads == Init /\ [][NextReads]_vars

\* Offers of business users with packages of three prices and delivery times,
\* offer PATCHes whose entries carry a price, a delivery time, both or
\* neither, for a type or for none, and the offer reads.
OfferIdInputsMany == 1..MaxPackageOffers
CanCreateOfferMany ==
    nextOfferId <= MaxPackageOffers /\ Cardinality(creating) < MaxCreating
PackageDetails ==
    <<DetailEntry("basic", 1, 1), DetailEntry("standard", 2, 2), DetailEntry("premium", 3, 3)>>
PackageEntries ==
    {DetailEntry(ty, pr, days) : ty \in {"basic", NoField},
                                 pr \in {NoPrice, 3}, days \in {NoDeliveryTime, 3}}
PackageEntryLists ==
    {<<>>} \cup {<<e>> : e \in PackageEntries}
           \cup {<<DetailEntry("basic", 3, NoDeliveryTime), e>> :
                     e \in {DetailEntry("basic", NoPrice, 3), DetailEntry("standard", 3, 3)}}
PackagePatchBodies == [title : {NoField}, details : PackageEntryLists, user : {NoUser}]

NextPackages ==
    \/ CanRegister /\ nextUserId < MaxUsers /\ Registration("business")
    \/ CanCreateOfferMany /\ \E p \in UserIds :
          OfferCreate(p, [title |-> "t1", details |-> PackageDetails, user |-> NoUser])
    \/ \E c \in creating : OfferCreateDetail(c)
    \/ \E p \in UserIds, o \in OfferIdInputsMany, b \in PackagePatchBodies :
          OfferPartialUpdate(p, o, b)
    \/ \E p \in UserIds, o \in OfferIdInputsMany : OfferRetrieve(p, o)
    \/ \E ordering \in Orderings : OfferViewSet_list(ordering)

SpecPackages == Init /\ [][NextPackages]_vars

\* Up to MaxRatedReviews reviews with ratings over the whole scale, their
\* rating updates and deletions, and the platform statistics.
ReviewIdInputsMany == 1..MaxRatedReviews
CanCreateReviewMany == nextReviewId <= MaxRatedReviews /\ posting = {}
RatedReviewBodies ==
    [business_user : 1..(MaxUsers - 1), rating : {MinRating, MinRating + 1, MaxRating},
     description : {"d1"}, reviewer : {NoUser}]
RatingPatchBodies ==
    [business_user : {NoUser}, rating : {MinRating, MaxRating},
     description : {NoField}, reviewer : {NoUser}]

NextBaseInfo ==
    \/ CanRegister /\ nextUserId < MaxUsers /\ Registration("customer")
    \/ CanCreateReviewMany /\ \E p \in UserIds, b \in RatedReviewBodies : ReviewCreate(p, b)
    \/ \E c \in posting : ReviewCreateSave(c)
    \/ \E p \in UserIds, r \in ReviewIdInputsMany, b \in RatingPatchBodies :
          ReviewPartialUpdate(p, r, b)
    \/ \E p \in UserIds, r \in ReviewIdInputsMany : ReviewDestroy(p, r)
    \/ BaseInfoView

SpecBaseInfo == Init /\ [][NextBaseInfo]_vars

\* One record of each entity and the PUT requests on them.
ReviewPostBodies ==
    [business_user : 1..(MaxUsers - 1), rating : {MinRating},
     description : {"d1"}, reviewer : {NoUser}]
ReviewPutBodies ==
    [business_user : 1..(MaxUsers - 1), rating : {NoRating, MaxRating},
     description : {"d1"}, reviewer : {NoUser}]

NextReplace ==
    \/ CanRegister /\ nextUserId < MaxUsers /\ \E t \in UserTypes : Registration(t)
    \/ CanCreateOffer /\ \E p \in UserIds :
          OfferCreate(p, [title |-> "t1", details |-> PackageDetails, user |-> NoUser])
    \/ \E c \in creating : OfferCreateDetail(c)
    \/ CanCreateOrder /\ \E p \in UserIds :
          OrderCreate(p, [offer_detail_id |-> 1, business_user |-> NoUser])
    \/ CanCreateReview /\ posting = {} /\ \E p \in UserIds, b \in ReviewPostBodies :
          ReviewCreate(p, b)
    \/ \E c \in posting : ReviewCreateSave(c)
    \/ \E p \in Principals, u \in UserIds : ProfileUpdate(p, u)
    \/ \E p \in Principals, o \in OfferIdInputs, b \in OfferPatchBodiesFew : OfferUpdate(p, o, b)
    \/ \E p \in Principals, o \in OrderIdInputs : OrderUpdate(p, o)
    \/ \E p \in Principals, r \in ReviewIdInputs, b \in ReviewPutBodies : ReviewUpdate(p, r, b)

SpecReplace == Init /\ [][NextReplace]_vars

\* Users, offers, orders and reviews, and the deletions of offers and users,
\* also while a creation request is between two of its inserts.
NextCascade ==
    \/ CanRegister /\ \E t \in UserTypes : Registration(t)
    \/ \E u \in UserIds : DeleteUser(u)
    \/ CanCreateOffer /\ \E p \in UserIds :
          OfferCreate(p, [title |-> "t1", details |-> PackageDetails, user |-> NoUser])
    \/ \E c \in creating : OfferCreateDetail(c)
    \/ \E p \in UserIds, o \in OfferIdInputs : OfferDestroy(p, o)
    \/ CanCreateOrder /\ \E p \in UserIds :
          OrderCreate(p, [offer_detail_id |-> 1, business_user |-> NoUser])
    \/ CanCreateReview /\ posting = {} /\ \E p, b \in UserIds :
          ReviewCreate(p, [business_user |-> b, rating |-> MinRating,
                           description |-> "d1", reviewer |-> NoUser])
    \/ \E c \in posting : ReviewCreateSave(c)

SpecCascade == Init /\ [][NextCascade]_vars

\* Up to MaxCountedOrders orders of one offer, their status updates, their
\* deletions by a staff account, and the two count views.
OrderIdInputsMany == 1..MaxCountedOrders
CanCreateOrderMany == nextOrderId <= MaxCountedOrders

NextCounts ==
    \/ CanRegister /\ \E t \in UserTypes : Registration(t)
    \/ CanRegister /\ CreateStaff
    \/ CanCreateOffer /\ \E p \in UserIds :
          OfferCreate(p, [title |-> "t1", details |-> PackageDetails, user |-> NoUser])
    \/ \E c \in creating : OfferCreateDetail(c)
    \/ CanCreateOrderMany /\ \E p \in UserIds :
          OrderCreate(p, [offer_detail_id |-> 1, business_user |-> NoUser])
    \/ \E p \in UserIds, o \in OrderIdInputsMany, s \in Statuses :
          OrderPartialUpdate(p, o, [status |-> s, business_user |-> NoUser])
    \/ \E p \in UserIds, o \in OrderIdInputsMany : OrderDestroy(p, o)
    \/ \E p \in Principals, b \in UserIds : OrderCountView(p, b)
    \/ \E p \in Principals, b \in UserIds : CompletedOrderCountView(p, b)

SpecCounts == Init /\ [][NextCounts]_vars

\* The operations that need a credential, by the name their responses carry.
NonPublicOps ==
    {"profile_patch", "profile_get", "profile_list",
     "offer_create", "offer_get", "offer_patch", "offer_delete", "offerdetail_get",
     "order_create", "order_list", "order_get", "order_patch", "order_delete",
     "order_count", "completed_order_count",
     "review_create", "review_list", "review_get", "review_patch", "review_delete"}

\* A request to the operation op without a credential.
AnonStep(op) ==
    CASE op = "profile_patch" ->
            \E t \in UserIds, b \in ProfileBodies : ProfilePartialUpdate(Anon, t, b)
      [] op = "profile_get" -> \E t \in UserIds : ProfileRetrieve(Anon, t)
      [] op = "profile_list" -> \E t \in UserTypes : ProfileList(Anon, t)
      [] op = "offer_create" -> \E b \in OfferCreateBodiesFew : OfferCreate(Anon, b)
      [] op = "offer_get" -> \E o \in OfferIdInputs : OfferRetrieve(Anon, o)
      [] op = "offer_patch" ->
            \E o \in OfferIdInputs, b \in OfferPatchBodies : OfferPartialUpdate(Anon, o, b)
      [] op = "offer_delete" -> \E o \in OfferIdInputs : OfferDestroy(Anon, o)
      [] op = "offerdetail_get" -> \E d \in DetailIdInputs : OfferDetailRetrieve(Anon, d)
      [] op = "order_create" -> \E b \in OrderCreateBodies : OrderCreate(Anon, b)
      [] op = "order_list" -> OrderViewSet_list(Anon)
      [] op = "order_get" -> \E o \in OrderIdInputs : OrderRetrieve(Anon, o)
      [] op = "order_patch" ->
            \E o \in OrderIdInputs, b \in OrderPatchBodies : OrderPartialUpdate(Anon, o, b)
      [] op = "order_delete" -> \E o \in OrderIdInputs : OrderDestroy(Anon, o)
      [] op = "order_count" -> \E u \in UserIds : OrderCountView(Anon, u)
      [] op = "completed_order_count" -> \E u \in UserIds : CompletedOrderCountView(Anon, u)
      [] op = "review_create" -> \E b \in ReviewCreateBodies : ReviewCreate(Anon, b)
      [] op = "review_list" -> ReviewViewSet_list(Anon)
      [] op = "review_get" -> \E r \in ReviewIdInputs : ReviewRetrieve(Anon, r)
      [] op = "review_patch" ->
            \E r \in ReviewIdInputs, b \in ReviewPatchBodies : ReviewPartialUpdate(Anon, r, b)
      [] op = "review_delete" -> \E r \in ReviewIdInputs : ReviewDestroy(Anon, r)

AnonRequest == \E op \in NonPublicOps : AnonStep(op)

\* Registered users fill every store, one request at a time; requests without
\* a credential arrive in every state.
NextAnon ==
    \/ CanRegister /\ \E t \in UserTypes : Registration(t)
    \/ CanCreateOffer /\ \E p \in UserIds :
          OfferCreate(p, [title |-> "t1", details |-> ValidDetails, user |-> NoUser])
    \/ \E c \in creating : OfferCreateDetail(c)
    \/ CanCreateOrder /\ \E p \in UserIds, d \in DetailIdInputs :
          OrderCreate(p, [offer_detail_id |-> d, business_user |-> NoUser])
    \/ CanCreateReview /\ posting = {} /\ \E p \in UserIds, u \in UserIds :
          ReviewCreate(p, [business_user |-> u, rating |-> MinRating,
                           description |-> "d1", reviewer |-> NoUser])
    \/ \E c \in posting : ReviewCreateSave(c)
    \/ AnonRequest

SpecAnon == Init /\ [][NextAnon]_vars

\* ------------------------------------------------------------------ claims
OrderOffer(r) == OfferById(DetailById(r.offer_detail).offer)

\* C1: every Order's business_user is the owner of the Offer that owns the
\* Order's package, whatever keys the bodies of order creation, order status
\* PATCH, offer PATCH and profile PATCH carried.
C1_BusinessUserIsOfferOwner ==
    \A r \in orders :
        /\ DetailExists(r.offer_detail)
        /\ OfferExists(DetailById(r.offer_detail).offer)
        /\ r.business_user = OrderOffer(r).user

\* An order whose status and whose offer's title were patched and whose
\* customer patched the own profile to business.
C1_Witness ==
    \E r \in orders :
        /\ r.status = "completed"
        /\ OrderOffer(r).title = "t2"
        /\ users[r.customer_user].type = "business"

HasOnePackagePerType(o, rows) ==
    LET ds == {d \in rows : d.offer = o} IN
    /\ Cardinality(ds) = 3
    /\ \A t \in OfferTypes : Cardinality({d \in ds : d.offer_type = t}) = 1

\* C2: an Offer whose creation is not in progress (it completed or it failed)
\* never has fewer than three packages: a failed creation persists nothing.
C2_NoPartialOfferAfterFailure ==
    \A o \in offers :
        o.id \notin {c.offer : c \in creating} => Cardinality(DetailsOf(o.id)) = 3

IsOneOfEachType(types) ==
    /\ Len(types) = 3
    /\ \A t \in OfferTypes : Cardinality({i \in DOMAIN types : types[i] = t}) = 1

\* C3: an offer creation by a business user whose package types are not
\* exactly one basic, one standard and one premium ends in a validation
\* failure and leaves the Offer rows and the OfferDetail rows as they were: a
\* creation step that is answered otherwise, or that inserts a row, is no step
\* of such a request.
C3_InvalidTypesRejected ==
    [][(/\ resp'.op \in {"offer_create", "offer_create_offer"}
        /\ ~(/\ resp'.status = 400
             /\ offers' = offers
             /\ details' = details
             /\ creating' = creating))
          => ~\E p \in UserIds, b \in OfferCreateBodies :
                 /\ IsBusinessUser(p)
                 /\ ~IsOneOfEachType(offer_types(b.details))
                 /\ OfferCreate(p, b)]_vars

\* A business user's creation request was refused for its details.
C3_Witness ==
    /\ resp = ValidationError("offer_create", {"details"})
    /\ \E u \in DOMAIN users : users[u].type = "business"

\* C4: when an offer creation answers 201, the Offer it created has exactly
\* three packages, one of each type.
C4_CreatedOfferHasThreePackages ==
    [][(resp'.op = "offer_create" /\ resp'.status = 201)
          => \A o \in {c.offer : c \in creating \ creating'} \cup {x.id : x \in offers' \ offers} :
                /\ \E x \in offers' : x.id = o
                /\ HasOnePackagePerType(o, details')]_vars

\* An offer creation completed and its offer is stored with three packages.
C4_Witness ==
    /\ resp = Response("offer_create", 201)
    /\ \E o \in offers : HasOnePackagePerType(o.id, details)

\* C5: no two Reviews have the same (business_user, reviewer) pair.
C5_UniqueReviewPerPair ==
    \A r1, r2 \in reviews :
        (r1.business_user = r2.business_user /\ r1.reviewer = r2.reviewer) => r1.id = r2.id

\* Two reviews by one reviewer, and a PATCH that would have moved one of them
\* onto the other's business_user.
C5_Witness ==
    /\ resp = Response("review_patch", 500)
    /\ \E r1, r2 \in reviews : r1.id # r2.id /\ r1.reviewer = r2.reviewer

\* C6: a review creation by a customer who already has a Review for the same
\* business user ends in a validation failure, stores no Review and leaves
\* every stored Review as it was.
C6_SecondReviewRejected ==
    [][resp'.op \in {"review_create", "review_create_valid"} =>
          \A p \in UserIds, b \in ReviewCreateBodies :
             (/\ IsCustomerUser(p)
              /\ \E r \in reviews : r.reviewer = p /\ r.business_user = b.business_user
              /\ ReviewCreate(p, b))
             => /\ resp'.status = 400
                /\ reviews' = reviews
                /\ posting' = posting]_vars

\* A second creation was refused by validate() while the first review is stored.
C6_Witness ==
    /\ resp = ValidationError("review_create", {"non_field_errors"})
    /\ reviews # {}

\* C7: no step changes the role of a registered user.
C7_RoleNeverChanges ==
    [][\A u \in DOMAIN users : users'[u].type = users[u].type]_vars

\* C8: every Order's customer has role customer and its business user has
\* role business.
C8_OrderRoles ==
    \A r \in orders :
        /\ users[r.customer_user].type = "customer"
        /\ users[r.business_user].type = "business"

\* C9: an order status PATCH on an existing order by an authenticated
\* principal who is not a business user or not the order's business_user is
\* answered 403 and leaves the orders as they were: a PATCH step that is
\* answered otherwise, or that changes an order, is no step of such a principal.
C9_OnlyBusinessUserOfOrderPatches ==
    [][(resp'.op = "order_patch" /\ ~(resp'.status = 403 /\ orders' = orders))
          => ~\E p \in UserIds, o \in OrderIdInputs :
                 /\ is_authenticated(p)
                 /\ OrderExists(o)
                 /\ ~(users[p].type = "business" /\ OrderById(o).business_user = p)
                 /\ \E b \in OrderPatchBodies : OrderPartialUpdate(p, o, b)]_vars

\* A status PATCH was refused on an order that its business user had completed.
C9_Witness ==
    /\ resp = Response("order_patch", 403)
    /\ \E r \in orders : r.status = "completed"

\* C10: an order DELETE on an existing order by an authenticated non-staff
\* principal is answered 403 and the order remains; by a staff principal it
\* removes the order, which is then in no principal's order list.
C10_OnlyStaffDeletesOrders ==
    [][resp'.op = "order_delete" =>
          \A p \in UserIds, o \in OrderIdInputs :
             (is_authenticated(p) /\ OrderExists(o) /\ OrderDestroy(p, o))
             => IF users[p].is_staff
                THEN /\ ~\E r \in orders' : r.id = o
                     /\ \A q \in Principals : OrderById(o) \notin OrderList(q, orders')
                ELSE /\ resp'.status = 403
                     /\ orders' = orders]_vars

\* A staff principal deleted the only order.
C10_Witness ==
    /\ resp = Response("order_delete", 204)
    /\ orders = {}
    /\ nextOrderId > 1

\* C11: an order creation stores an order only for a customer and an existing
\* package id, and the order has the requester as customer_user, the package as
\* offer_detail and status in_progress; a business user is answered 403 and a
\* customer naming no stored package 400, both with the orders unchanged.
C11_OrderCreateRules ==
    [][resp'.op = "order_create" =>
          \A p \in Principals, b \in OrderCreateBodies :
             OrderCreate(p, b) =>
                /\ (resp'.status = 201 \/ orders' # orders) =>
                      /\ is_authenticated(p)
                      /\ users[p].type = "customer"
                      /\ DetailExists(b.offer_detail_id)
                      /\ resp'.status = 201
                      /\ \E r \in orders' \ orders :
                            /\ orders' = orders \cup {r}
                            /\ r.customer_user = p
                            /\ r.offer_detail = b.offer_detail_id
                            /\ r.status = "in_progress"
                /\ (is_authenticated(p) /\ users[p].type = "business") =>
                      resp'.status = 403 /\ orders' = orders
                /\ (is_authenticated(p) /\ users[p].type = "customer"
                        /\ ~DetailExists(b.offer_detail_id)) =>
                      resp'.status = 400 /\ orders' = orders]_vars

\* A customer's order was created and stored in progress.
C11_Witness ==
    /\ resp = Response("order_create", 201)
    /\ \E r \in orders : r.status = "in_progress" /\ DetailExists(r.offer_detail)

\* C12: an offer PATCH or DELETE on an existing offer by an authenticated
\* principal is carried out when the principal owns the offer, whatever the
\* owner's role is by then, and is otherwise answered 403 with the offers and
\* packages unchanged.
C12_OwnerAlonePatchesOrDeletesOffer ==
    [][resp'.op \in {"offer_patch", "offer_delete"} =>
          \A p \in UserIds, o \in OfferIdInputs :
             (/\ is_authenticated(p)
              /\ OfferExists(o)
              /\ \/ OfferDestroy(p, o)
                 \/ \E b \in OfferPatchBodiesFew : OfferPartialUpdate(p, o, b))
             => IF OfferById(o).user = p
                THEN resp'.status \in {200, 204}
                ELSE /\ resp'.status = 403
                     /\ offers' = offers
                     /\ details' = details]_vars

\* C13: an offer creation stores an Offer only for an authenticated business
\* user, and the Offer's user is the requester whatever 'user' key the body
\* carried; an authenticated customer is answered 403 and nothing is stored.
C13_OnlyBusinessCreatesOwnOffer ==
    [][resp'.op \in {"offer_create", "offer_create_offer"} =>
          \A p \in Principals, b \in OfferCreateBodiesFew :
             OfferCreate(p, b) =>
                /\ offers' # offers =>
                      /\ is_authenticated(p)
                      /\ users[p].type = "business"
                      /\ \A x \in offers' \ offers : x.user = p
                /\ (is_authenticated(p) /\ users[p].type = "customer") =>
                      /\ resp'.status = 403
                      /\ offers' = offers
                      /\ details' = details
                      /\ creating' = creating]_vars

\* The Offer row of a creation by user 2 was just stored with user 2 as its
\* owner; no body names user 2.
C13_Witness ==
    /\ resp = Response("offer_create_offer", 0)
    /\ \E o \in offers : o.user = 2 /\ users[2].type = "business"

\* C14: a review PATCH or DELETE on an existing review by an authenticated
\* principal who is not its reviewer is answered 403 and leaves the reviews as
\* they were: a step answered otherwise, or changing a review, is no step of
\* such a principal.
C14_OnlyReviewerChangesReview ==
    [][(/\ resp'.op \in {"review_patch", "review_delete"}
        /\ ~(resp'.status = 403 /\ reviews' = reviews))
          => ~\E x \in reviews :
                \E p \in DOMAIN users \ {x.reviewer} :
                    IF resp'.op = "review_delete"
                    THEN ReviewDestroy(p, x.id)
                    ELSE \E b \in ReviewPatchBodies : ReviewPartialUpdate(p, x.id, b)]_vars

\* A delete was refused and the review is still stored.
C14_Witness ==
    /\ resp = Response("review_delete", 403)
    /\ reviews # {}

\* C15: a profile PATCH on an existing user by any principal other than that
\* user leaves every user row as it was, and is answered 403 when the principal
\* is authenticated; a profile read by an authenticated principal is answered
\* 200 with the target's profile, whoever the target is.
C15_OnlyOwnerPatchesProfile ==
    [][resp'.op \in {"profile_patch", "profile_get"} =>
          \A p \in Principals, t \in DOMAIN users :
             /\ (p # t /\ \E b \in ProfileBodies : ProfilePartialUpdate(p, t, b)) =>
                   /\ users' = users
                   /\ is_authenticated(p) => resp'.status = 403
             /\ (is_authenticated(p) /\ ProfileRetrieve(p, t)) =>
                   /\ resp'.status = 200
                   /\ resp'.data = {[user |-> t, type |-> users[t].type]}]_vars

\* A PATCH of another user's profile was refused.
C15_Witness ==
    /\ resp = Response("profile_patch", 403)
    /\ Cardinality(DOMAIN users) >= 2

\* C16: a request without a credential to any operation that needs one is
\* answered 401, never 403 or 404, whatever id it names and whatever the
\* stores hold: a step of such an operation answered otherwise is no step of a
\* request without a credential.
C16_NoCredentialIsAuthenticationFailure ==
    [][(resp'.op \in NonPublicOps /\ resp'.status # 401) => ~AnonStep(resp'.op)]_vars

\* A review PATCH without a credential was answered 401 while a review, an
\* order and an offer are stored.
C16_Witness ==
    /\ resp = Response("review_patch", 401)
    /\ reviews # {}
    /\ orders # {}
    /\ offers # {}

\* C17: the order list answered to an authenticated principal p holds exactly
\* the orders whose customer_user or business_user is p.
C17_OrderListIsOwnOrders ==
    [][resp'.op = "order_list" =>
          \A p \in UserIds :
             (is_authenticated(p) /\ OrderViewSet_list(p)) =>
                /\ resp'.status = 200
                /\ \A r \in orders :
                      (r.customer_user = p \/ r.business_user = p)
                          <=> (\E x \in resp'.data : x.id = r.id)
                /\ \A x \in resp'.data : OrderExists(x.id)]_vars

\* A user who is no party of the stored order listed the orders and got none.
C17_Witness ==
    /\ resp = Data("order_list", {})
    /\ orders # {}

\* C18: a review PATCH by the reviewer that would give the review the
\* (business_user, reviewer) pair of another stored review is answered 400 and
\* leaves the reviews as they were.
C18_PatchCollisionIsValidationFailure ==
    [][resp'.op = "review_patch" =>
          \A p \in UserIds, r \in ReviewIdInputs, b \in ReviewPatchBodies :
             (/\ ReviewExists(r)
              /\ ReviewById(r).reviewer = p
              /\ ReviewFieldErrorsOnUpdate(b) = {}
              /\ ~UniqueTogetherHolds(reviews, ReviewSerializer_update(ReviewById(r), b))
              /\ ReviewPartialUpdate(p, r, b))
             => resp'.status = 400 /\ reviews' = reviews]_vars

\* C19: a single offer read never shows an Offer with fewer than its three
\* packages, also while the offer's creation is in progress.
C19_ReadsSeeWholeOffers ==
    (resp.op = "offer_get" /\ resp.status = 200)
        => \A x \in resp.data : Cardinality(x.details) = 3

\* C20: an order read shows the offer_type and the price that the order's
\* package has when the read is served, also after an offer PATCH changed
\* the package.
C20_OrderReadsShowLivePackage ==
    (resp.op \in {"order_list", "order_get"} /\ resp.status = 200)
        => \A x \in resp.data :
              /\ OrderExists(x.id)
              /\ x.price = DetailById(OrderById(x.id).offer_detail).price
              /\ x.offer_type = DetailById(OrderById(x.id).offer_detail).offer_type

\* An order list shows the price an offer PATCH gave the package after creation.
C20_Witness ==
    /\ resp.op = "order_list"
    /\ resp.status = 200
    /\ \E x \in resp.data : x.price = 2

\* The price and the delivery time a package of type ty has after the entries
\* were applied: those of the last entry of that type that carries the key.
EntriesWith(entries, ty, key) ==
    {i \in DOMAIN entries :
        /\ entries[i].offer_type = ty
        /\ IF key = "price" THEN entries[i].price # NoPrice
           ELSE entries[i].delivery_time_in_days # NoDeliveryTime}

MergedPackage(d, entries) ==
    LET ps == EntriesWith(entries, d.offer_type, "price")
        ts == EntriesWith(entries, d.offer_type, "delivery_time_in_days") IN
    [d EXCEPT
        !.price = IF ps = {} THEN @ ELSE entries[Max(ps)].price,
        !.delivery_time_in_days =
            IF ts = {} THEN @ ELSE entries[Max(ts)].delivery_time_in_days]

\* C21: an offer PATCH that is carried out gives every package of the offer
\* the keys present in the entries of its type and leaves its other keys, the
\* packages no entry names and the packages of every other offer as they
\* were; an entry that matches no package raises no error.
C21_PackageEntriesArePartialUpdates ==
    [][(resp'.op = "offer_patch" /\ resp'.status \notin {401, 403, 404}) =>
          \A p \in DOMAIN users, o \in OfferIdInputsMany, b \in PackagePatchBodies :
             OfferPartialUpdate(p, o, b) =>
                /\ resp'.status = 200
                /\ details' = {IF d.offer = o THEN MergedPackage(d, b.details) ELSE d :
                                  d \in details}]_vars

\* Two offers are stored; the basic package of one took a new price and kept
\* its delivery time, its standard package is as created, and so are the
\* three packages of the other offer.
C21_Witness ==
    /\ resp = Response("offer_patch", 200)
    /\ \E o1, o2 \in offers :
          /\ o1.id # o2.id
          /\ \E d \in DetailsOf(o1.id) :
                d.offer_type = "basic" /\ d.price = 3 /\ d.delivery_time_in_days = 1
          /\ \E d \in DetailsOf(o1.id) :
                d.offer_type = "standard" /\ d.price = 2 /\ d.delivery_time_in_days = 2
          /\ \A d \in DetailsOf(o2.id) : d.price = d.delivery_time_in_days
          /\ Cardinality(DetailsOf(o2.id)) = 3

\* C22: every offer read shows as min_price the lowest price and as
\* min_delivery_time the lowest delivery_time_in_days of the packages the
\* offer has when the read is served, and null for an offer without packages.
C22_MinFieldsAreCurrentMinima ==
    (resp.op \in {"offer_get", "offer_list"} /\ resp.status = 200) =>
        \A x \in resp.data :
            LET ds == DetailsOf(x.id) IN
            IF ds = {}
            THEN x.min_price = Null /\ x.min_delivery_time = Null
            ELSE /\ \E d \in ds : d.price = x.min_price
                 /\ \A d \in ds : x.min_price <= d.price
                 /\ \E d \in ds : d.delivery_time_in_days = x.min_delivery_time
                 /\ \A d \in ds : x.min_delivery_time <= d.delivery_time_in_days

\* A read shows the minima after PATCHes raised the basic package's price and
\* delivery time above the standard package's.
C22_Witness ==
    /\ resp.op = "offer_get"
    /\ resp.status = 200
    /\ \E x \in resp.data : x.min_price = 2 /\ x.min_delivery_time = 2

\* C27: an offer list request, whatever ordering it asks for, is answered
\* without an unhandled fault.
C27_OfferListNeverFaults ==
    resp.op = "offer_list" => resp.status = 200

PackageKeys(rows, o) == {<<d.id, d.offer_type>> : d \in {x \in rows : x.offer = o}}

\* C30: an offer that has its three packages basic, standard and premium has
\* the same packages, by id and type, after every step that leaves the offer
\* stored.
C30_UpdatesKeepPackageSet ==
    [][\A o \in offers :
          (HasOnePackagePerType(o.id, details) /\ \E x \in offers' : x.id = o.id)
              => PackageKeys(details', o.id) = PackageKeys(details, o.id)]_vars

\* A complete offer was patched with an entry that names no type and its basic
\* package carries a patched price.
C30_Witness ==
    /\ resp = Response("offer_patch", 200)
    /\ \E o \in offers :
          /\ HasOnePackagePerType(o.id, details)
          /\ \E d \in DetailsOf(o.id) : d.offer_type = "basic" /\ d.price = 3

\* C23: the platform statistics show a null average_rating exactly when no
\* review is stored, and otherwise the tenth nearest to the mean of the
\* stored ratings (at most half a tenth away from it).
C23_AverageRatingIsRoundedMean ==
    resp.op = "base_info" =>
        \A x \in resp.data :
            LET n == Cardinality(reviews)
                total == RatingSum(reviews) IN
            /\ x.average_rating = Null <=> reviews = {}
            /\ reviews # {} =>
                  /\ 2 * (10 * total - x.average_rating * n) <= n
                  /\ 2 * (x.average_rating * n - 10 * total) <= n

\* Three reviews with the ratings 1, 2 and 2 are stored, one of them after an
\* update or a deletion, and the statistics show 1.7.
C23_Witness ==
    /\ resp.op = "base_info"
    /\ Cardinality(reviews) = 3
    /\ RatingSum(reviews) = 5
    /\ nextReviewId > 4
    /\ \E x \in resp.data : x.average_rating = 17

\* C24: a PUT request on a profile, an offer, an order or a review is never
\* carried out: it is not answered 200 and it changes no stored record.
C24_FullReplaceIsNeverCarriedOut ==
    [][resp'.op \in {"profile_put", "offer_put", "order_put", "review_put"} =>
          /\ resp'.status # 200
          /\ UNCHANGED <<users, offers, details, orders, reviews>>]_vars

\* C25: in every reachable state the user of each offer, the offer of each
\* package, the package and both users of each order and both users of each
\* review are stored: a deletion takes with it every record that refers to
\* what it deletes.
C25_ReferencesStayValid ==
    /\ \A o \in offers : o.user \in DOMAIN users
    /\ \A d \in details : OfferExists(d.offer)
    /\ \A r \in orders : /\ DetailExists(r.offer_detail)
                         /\ r.customer_user \in DOMAIN users
                         /\ r.business_user \in DOMAIN users
    /\ \A r \in reviews : r.business_user \in DOMAIN users /\ r.reviewer \in DOMAIN users

\* A user was deleted whose offer had packages and an order: none of them is
\* left, while a review between two other users is.
C25_Witness ==
    /\ resp = Response("delete_user", 0)
    /\ nextOfferId > 1 /\ offers = {}
    /\ nextDetailId > 3 /\ details = {}
    /\ nextOrderId > 1 /\ orders = {}
    /\ reviews # {}

\* What a count view answers an authenticated request for the id b: the
\* number of stored orders of the business user b in the given status, and
\* not-found when b is not the id of a stored business user.
CountAnswer(b, status) ==
    IF b \in DOMAIN users /\ users[b].type = "business"
    THEN /\ resp'.status = 200
         /\ resp'.data = {[count |-> Cardinality({r.id : r \in {x \in orders :
                                         x.business_user = b /\ x.status = status}})]}
    ELSE resp'.status = 404 /\ resp'.data = {}

\* C26: for an authenticated request, order-count answers the number of
\* in_progress orders of the business user named and completed-order-count
\* the number of completed ones, and both answer not-found for an id that is
\* no stored business user.
C26_CountsAreCurrent ==
    [][(resp'.op \in {"order_count", "completed_order_count"} /\ resp'.status # 401) =>
          \A p \in DOMAIN users, b \in UserIds :
              /\ OrderCountView(p, b) => CountAnswer(b, "in_progress")
              /\ CompletedOrderCountView(p, b) => CountAnswer(b, "completed")]_vars

\* Two orders of one business user are stored and the completed count is 1.
C26_Witness ==
    /\ resp = Data("completed_order_count", {[count |-> 1]})
    /\ Cardinality(orders) = 2

\* C28: a review creation whose insert meets a stored review of the same
\* reviewer for the same business user, stored after the creation's own
\* existence check, is answered 400 and stores nothing.
C28_LostRaceIsValidationFailure ==
    [][resp'.op = "review_create" =>
          \A c \in posting :
             (/\ \E r \in reviews : r.reviewer = c.reviewer /\ r.business_user = c.business_user
              /\ ReviewCreateSave(c))
             => resp'.status = 400 /\ reviews' = reviews]_vars

\* C29: an order PATCH or DELETE by an authenticated user is never answered
\* 404 when an order with the id is stored, and is answered 403 when the
\* order is stored and the user is not allowed the operation (PATCH: not the
\* order's business user; DELETE: not staff), whether or not the user is a
\* party of the order.
C29_NotAllowedIsForbiddenNotMissing ==
    [][resp'.op \in {"order_patch", "order_delete"} =>
          \A p \in DOMAIN users, o \in OrderIdInputs :
             OrderExists(o) =>
                /\ \A b \in OrderPatchBodies :
                      OrderPartialUpdate(p, o, b) =>
                         /\ resp'.status # 404
                         /\ ~(users[p].type = "business" /\ OrderById(o).business_user = p)
                               => resp'.status = 403
                /\ OrderDestroy(p, o) =>
                      /\ resp'.status # 404
                      /\ ~users[p].is_staff => resp'.status = 403]_vars

\* An order PATCH was answered 403 while an order is stored and a user who is
\* neither its customer nor its business user is registered.
C29_Witness ==
    /\ resp = Response("order_patch", 403)
    /\ \E r \in orders : \E u \in DOMAIN users :
          /\ u # r.customer_user
          /\ u # r.business_user
          /\ users[u].type = "business"

====
